---- MODULE Spec2Model ----
(***************************************************************************)
(* Model of src/core/api/providers/nousresearch.ts (NousresearchHandler)   *)
(* and src/shared/net.ts (the exported fetch and getAxiosSettings).        *)
(*                                                                         *)
(* A createMessage call is an async generator: it runs synchronously from  *)
(* one suspension point to the next.  The suspension points are the two    *)
(* awaits (the request, the next chunk of the stream) and the three yields *)
(* of the loop body; each action below is one such run.                    *)
(***************************************************************************)
EXTENDS Integers, Sequences, FiniteSets, TLC

(***************************************************************************)
(* Bounds                                                                  *)
(***************************************************************************)
MaxCalls == 2        \* createMessage invocations in the process
MaxChunks == 2       \* chunks the backends send in the process
MaxNetCalls == 3     \* calls of fetch, and of getAxiosSettings

Adapters == {1, 2}

(***************************************************************************)
(* JavaScript values                                                       *)
(***************************************************************************)
Undefined == "undefined"        \* the value undefined of a string-typed field
NoNumber == -1                  \* the value undefined of a number-typed field

\* ToBoolean of a string-or-undefined value: undefined and "" are falsy.
Truthy(s) == s # Undefined /\ s # ""

\* Mutant of OrZero: the count is passed on as it is.
OrZeroNoDefault(n) == n

\* x || 0 on a number-or-undefined value.
OrZero(n) == IF n = NoNumber \/ n = 0 THEN 0 ELSE n

(***************************************************************************)
(* @shared/api: the static model table                                     *)
(***************************************************************************)
nousresearchModels == {"Hermes-4-405B", "Hermes-4-70B"}
nousresearchDefaultModelId == "Hermes-4-405B"

\* nousresearchModels[id]: the info stored under an own key of the table.
ModelInfoOf(id) == [table |-> "nousresearchModels", key |-> id]

\* Property names every object literal inherits from Object.prototype.
ObjectPrototypeKeys == {"constructor", "toString"}

\* What nousresearchModels[key] evaluates to.
Lookup(key) ==
    IF key \in nousresearchModels THEN ModelInfoOf(key)
    ELSE IF key \in ObjectPrototypeKeys THEN [table |-> "Object.prototype", key |-> key]
    ELSE [table |-> "none", key |-> key]

\* key in nousresearchModels: own keys and the prototype chain.
InModels(key) == key \in nousresearchModels \cup ObjectPrototypeKeys

\* NousresearchHandler.getModel
getModel(opts) ==
    LET modelId == opts.apiModelId IN
    IF Truthy(modelId) /\ InModels(modelId)
    THEN [id |-> modelId, info |-> Lookup(modelId)]
    ELSE [id |-> nousresearchDefaultModelId, info |-> Lookup(nousresearchDefaultModelId)]

(***************************************************************************)
(* Inputs                                                                  *)
(***************************************************************************)
\* NousresearchHandlerOptions values handed to the constructor.
OptionInputs ==
    { [nousResearchApiKey |-> Undefined, apiModelId |-> Undefined],
      [nousResearchApiKey |-> "",        apiModelId |-> "Hermes-4-70B"],
      [nousResearchApiKey |-> "sk-nous", apiModelId |-> "Hermes-4-70B"] }

\* apiModelId values for the getModel specification.
ModelIdInputs ==
    {Undefined, "", "Hermes-4-405B", "Hermes-4-70B", "gpt-4", "hermes-4-70b",
     "constructor", "toString"}

\* One chunk of the chat-completion stream.
\*   hasChoices: chunk.choices is an array; hasDelta: choices[0].delta exists.
Chunk(hasChoices, hasDelta, content, reasoning, hasUsage, pt, ct) ==
    [hasChoices |-> hasChoices, hasDelta |-> hasDelta, content |-> content,
     reasoning_content |-> reasoning, hasUsage |-> hasUsage,
     prompt_tokens |-> pt, completion_tokens |-> ct]

ChunkInputs ==
    { Chunk(TRUE,  TRUE,  "He",      Undefined, FALSE, NoNumber, NoNumber),
      Chunk(TRUE,  TRUE,  "llo",     Undefined, FALSE, NoNumber, NoNumber),
      Chunk(TRUE,  FALSE, Undefined, Undefined, TRUE,  5, 2),
      Chunk(TRUE,  TRUE,  "He",      "hm",      TRUE,  5, 2),
      Chunk(TRUE,  TRUE,  "",        "",        TRUE,  NoNumber, 2),
      Chunk(TRUE,  TRUE,  Undefined, Undefined, FALSE, NoNumber, NoNumber),
      Chunk(FALSE, FALSE, Undefined, Undefined, FALSE, NoNumber, NoNumber) }

\* Errors the backend can raise, on the request or in the middle of a stream.
BackendErrors == {"transient", "fatal"}

(***************************************************************************)
(* ../retry: the withRetry decorator around createMessage                  *)
(***************************************************************************)
MaxAttempts == 3

IsTransient(err) == err = "transient"

\* Mutants of RetryDecision: never retry; retry whatever was already handed to
\* the caller; one attempt too many.
RetryDecisionNever(err, att, emitted) == "throw"

RetryDecisionIgnoresOutput(err, att, emitted) ==
    IF IsTransient(err) /\ att < MaxAttempts THEN "retry" ELSE "throw"

RetryDecisionOffByOne(err, att, emitted) ==
    IF emitted THEN "throw"
    ELSE IF IsTransient(err) /\ att <= MaxAttempts THEN "retry"
    ELSE "throw"

\* What the wrapper does with an error thrown by attempt number att:
\* emitted says whether the call has already handed an event to its caller.
RetryDecision(err, att, emitted) ==
    IF emitted THEN "throw"
    ELSE IF IsTransient(err) /\ att < MaxAttempts THEN "retry"
    ELSE "throw"

\* The error the caller sees, annotated with the number of retries made.
Failed(err, att) == [status |-> "failed", error |-> err, retries |-> att - 1]

(***************************************************************************)
(* The body of the for-await loop                                          *)
(***************************************************************************)
\* chunk.choices[0]?.delta throws a TypeError when chunk.choices is missing.
DeltaThrows(c) == ~c.hasChoices

\* Mutant of YieldsText: any content that is not undefined is yielded.
YieldsTextDefined(c) == c.hasDelta /\ c.content # Undefined

YieldsText(c) == c.hasDelta /\ Truthy(c.content)

\* Mutant of TextEvent: the text accumulated so far instead of the delta.
TextEventCumulative(c) ==
    [type |-> "text", text |-> IF c.content = "llo" THEN "Hello" ELSE c.content]

TextEvent(c) == [type |-> "text", text |-> c.content]

YieldsReasoning(c) == c.hasDelta /\ Truthy(c.reasoning_content)

ReasoningEvent(c) ==
    [type |-> "reasoning",
     reasoning |-> IF Truthy(c.reasoning_content) THEN c.reasoning_content ELSE ""]

YieldsUsage(c) == c.hasUsage

UsageEvent(c) ==
    [type |-> "usage",
     inputTokens |-> OrZero(c.prompt_tokens),
     outputTokens |-> OrZero(c.completion_tokens)]

\* The three yield statements of the loop body, in program order.
Yields(k, c) ==
    CASE k = 1 -> YieldsText(c)
      [] k = 2 -> YieldsReasoning(c)
      [] k = 3 -> YieldsUsage(c)

\* Mutant of EventAt: the usage event is built by the second statement and
\* the reasoning event by the third.
EventAtUsageSecond(k, c) ==
    CASE k = 1 -> TextEvent(c)
      [] k = 2 -> UsageEvent(c)
      [] k = 3 -> ReasoningEvent(c)

EventAt(k, c) ==
    CASE k = 1 -> TextEvent(c)
      [] k = 2 -> ReasoningEvent(c)
      [] k = 3 -> UsageEvent(c)

\* Mutant of YieldPc: after handing over an event the generator goes on to
\* fetch the next chunk instead of waiting for the caller.
YieldPcPrefetch(k) == "awaitChunk"

\* Where the generator is suspended after yield statement k.
YieldPc(k) ==
    CASE k = 1 -> "yieldedText"
      [] k = 2 -> "yieldedReasoning"
      [] k = 3 -> "yieldedUsage"

PcYield(p) ==
    CASE p = "yieldedText" -> 1
      [] p = "yieldedReasoning" -> 2
      [] p = "yieldedUsage" -> 3

\* The first yield statement at or after statement k that chunk c reaches;
\* 4 when the loop body ends without another yield.
NextYield(k, c) ==
    IF \E j \in k..3 : Yields(j, c)
    THEN CHOOSE j \in k..3 : Yields(j, c) /\ \A i \in k..(j - 1) : ~Yields(i, c)
    ELSE 4

YieldPcs == {"yieldedText", "yieldedReasoning", "yieldedUsage"}

(***************************************************************************)
(* State                                                                   *)
(***************************************************************************)
VARIABLES
    options,      \* this.options of each adapter
    client,       \* this.client: 0 is undefined, else the identity of the OpenAI object
    handles,      \* OpenAI objects constructed so far in the process
    built,        \* successful new OpenAI(...) per adapter
    calls,        \* createMessage invocations so far
    chunks,       \* chunks the backends have sent so far
    pc,           \* where the adapter's current call is suspended
    attempt,      \* attempts the retry wrapper has started in the current call
    failures,     \* attempts of the current call that ended in a thrown error
    received,     \* chunks taken from the stream of the current attempt
    delivered,    \* events handed to the caller in the current call
    requests,     \* chat.completions.create requests issued per adapter
    sentModel,    \* the model field of the adapter's latest request
    result,       \* how the adapter's latest call ended
    streamOpen,   \* the backend stream of the current attempt is open
    resolved,     \* what the latest direct getModel call of each adapter returned
    netLoaded,    \* the module net.ts has been evaluated
    isVSCode,     \* the process runs inside the VSCode extension host
    env,          \* process.env proxy variables
    agents,       \* EnvHttpProxyAgent objects constructed so far
    agentEnv,     \* the proxy environment the newest agent was built from
    route,        \* the proxy the latest fetch call went through
    dispatcher,   \* undici's global dispatcher: 0 is the built-in one, else an agent
    fetch,        \* the exported fetch
    fetchCalls,   \* calls of the exported fetch so far
    loggerCalls,  \* Logger.info calls so far
    settings      \* the value the latest getAxiosSettings call returned

callVars == <<pc, attempt, failures, received, delivered, result, streamOpen>>
adapterVars == <<options, client, handles, built, calls, chunks, requests, sentModel,
                 resolved, callVars>>
netVars == <<netLoaded, isVSCode, env, agents, agentEnv, route, dispatcher, fetch,
             fetchCalls, loggerCalls, settings>>
vars == <<adapterVars, netVars>>

(***************************************************************************)
(* NousresearchHandler                                                     *)
(***************************************************************************)
\* The fields of a fresh adapter other than this.options, and the history.
AdapterFields ==
    /\ client = [a \in Adapters |-> 0]
    /\ handles = 0
    /\ built = [a \in Adapters |-> 0]
    /\ calls = 0
    /\ chunks = 0
    /\ pc = [a \in Adapters |-> "idle"]
    /\ attempt = [a \in Adapters |-> 0]
    /\ failures = [a \in Adapters |-> 0]
    /\ resolved = [a \in Adapters |-> [id |-> Undefined, info |-> Undefined]]
    /\ received = [a \in Adapters |-> <<>>]
    /\ delivered = [a \in Adapters |-> <<>>]
    /\ requests = [a \in Adapters |-> 0]
    /\ sentModel = [a \in Adapters |-> Undefined]
    /\ result = [a \in Adapters |-> [status |-> "none"]]
    /\ streamOpen = [a \in Adapters |-> FALSE]

\* Whether the constructor throws on these options: it only stores them.
ConstructorThrows(opts) == FALSE

\* constructor: stores the options, builds no client.  The adapters of the
\* model are those whose construction returned.
AdapterInit ==
    /\ options \in [Adapters -> {o \in OptionInputs : ~ConstructorThrows(o)}]
    /\ AdapterFields

\* Mutants of KeyMissing: only undefined counts as a missing key; no check.
KeyMissingOnlyUndefined(opts) == opts.nousResearchApiKey = Undefined

KeyMissingNever(opts) == FALSE

\* ensureClient throws when the client is missing and the key is falsy.
KeyMissing(opts) == ~Truthy(opts.nousResearchApiKey)

\* The error thrown inside an attempt reaches the retry wrapper, which either
\* schedules another attempt or rethrows to the caller.
Settle(a, err, att) ==
    /\ failures' = [failures EXCEPT ![a] = @ + 1]
    /\ IF RetryDecision(err, att, delivered[a] # <<>>) = "retry"
       THEN /\ pc' = [pc EXCEPT ![a] = "backoff"]
            /\ result' = result
       ELSE /\ pc' = [pc EXCEPT ![a] = "idle"]
            /\ result' = [result EXCEPT ![a] = Failed(err, att)]

\* Mutant of NeedsClient: a client is built on every use.
NeedsClientAlways(c) == TRUE

\* ensureClient builds a client only when this.client is not set.
NeedsClient(c) == c = 0

\* Mutant of ClientSlot: the client is kept in one place for all adapters.
ClientSlotShared(a) == 1

\* Where adapter a keeps its client: this.client, a field of the instance.
ClientSlot(a) == a

\* Mutant of IssueRequest: a later call replays the response of the first request.
IssueRequestOnce(n) == IF n = 0 THEN 1 ELSE n

\* client.chat.completions.create: the requests issued, n having been issued before.
IssueRequest(n) == n + 1

\* One attempt, from the start of the generator body to its first await:
\* ensureClient, getModel, and the chat.completions.create request.
StartAttempt(a) ==
    LET att == attempt[a] + 1
        own == ClientSlot(a) IN
    /\ attempt' = [attempt EXCEPT ![a] = att]
    /\ received' = [received EXCEPT ![a] = <<>>]
    /\ UNCHANGED <<options, calls, chunks, delivered, streamOpen, resolved>>
    /\ IF NeedsClient(client[own]) /\ KeyMissing(options[a])
       THEN /\ Settle(a, "NousResearch API key is required", att)
            /\ UNCHANGED <<client, handles, built, requests, sentModel>>
       ELSE \/ /\ NeedsClient(client[own])
               /\ Settle(a, "Error creating NousResearch client", att)
               /\ UNCHANGED <<client, handles, built, requests, sentModel>>
            \/ /\ IF NeedsClient(client[own])
                  THEN /\ handles' = handles + 1
                       /\ client' = [client EXCEPT ![own] = handles + 1]
                       /\ built' = [built EXCEPT ![a] = @ + 1]
                  ELSE UNCHANGED <<client, handles, built>>
               /\ sentModel' = [sentModel EXCEPT ![a] = getModel(options[a]).id]
               /\ requests' = [requests EXCEPT ![a] = IssueRequest(@)]
               /\ pc' = [pc EXCEPT ![a] = "awaitResponse"]
               /\ UNCHANGED <<result, failures>>

\* The caller invokes createMessage: the generator object exists, nothing ran.
Call(a) ==
    /\ pc[a] = "idle"
    /\ calls < MaxCalls
    /\ calls' = calls + 1
    /\ pc' = [pc EXCEPT ![a] = "start"]
    /\ attempt' = [attempt EXCEPT ![a] = 0]
    /\ failures' = [failures EXCEPT ![a] = 0]
    /\ received' = [received EXCEPT ![a] = <<>>]
    /\ delivered' = [delivered EXCEPT ![a] = <<>>]
    /\ result' = [result EXCEPT ![a] = [status |-> "pending"]]
    /\ UNCHANGED <<options, client, handles, built, chunks, requests, sentModel,
                   streamOpen, resolved>>
    /\ UNCHANGED netVars

\* The caller's first next(): the wrapper starts the first attempt.
FirstPull(a) ==
    /\ pc[a] = "start"
    /\ StartAttempt(a)
    /\ UNCHANGED netVars

\* The backoff delay is over: the wrapper starts the next attempt.
Retry(a) ==
    /\ pc[a] = "backoff"
    /\ StartAttempt(a)
    /\ UNCHANGED netVars

\* The request resolves to a stream, and the loop asks for its first chunk.
Respond(a) ==
    /\ pc[a] = "awaitResponse"
    /\ pc' = [pc EXCEPT ![a] = "awaitChunk"]
    /\ streamOpen' = [streamOpen EXCEPT ![a] = TRUE]
    /\ UNCHANGED <<options, client, handles, built, calls, chunks, attempt, failures,
                   received, delivered, requests, sentModel, result, resolved>>
    /\ UNCHANGED netVars

\* The request rejects.
RequestFails(a, err) ==
    /\ pc[a] = "awaitResponse"
    /\ Settle(a, err, attempt[a])
    /\ UNCHANGED <<options, client, handles, built, calls, chunks, attempt, received,
                   delivered, requests, sentModel, streamOpen, resolved>>
    /\ UNCHANGED netVars

\* Mutant of LoopExit: leaving the loop early leaves the stream as it is.
LoopExitLeak(open) == open

\* Leaving the for-await loop before the stream is done (a throw in the body,
\* a return() at a yield) calls the stream iterator's return(), which closes
\* the stream: the value of streamOpen afterwards.
LoopExit(open) == FALSE

\* The generator runs the loop body of chunk c from yield statement k on:
\* up to the next yield, or to the end of the body and the next await.
RunBody(a, k, c) ==
    LET j == NextYield(k, c) IN
    IF j = 4
    THEN /\ pc' = [pc EXCEPT ![a] = "awaitChunk"]
         /\ delivered' = delivered
    ELSE /\ pc' = [pc EXCEPT ![a] = YieldPc(j)]
         /\ delivered' = [delivered EXCEPT ![a] = Append(@, EventAt(j, c))]

\* The stream delivers chunk c.
TakeChunk(a, c) ==
    /\ pc[a] = "awaitChunk"
    /\ chunks < MaxChunks
    /\ chunks' = chunks + 1
    /\ received' = [received EXCEPT ![a] = Append(@, c)]
    /\ IF DeltaThrows(c)
       THEN /\ Settle(a, "TypeError", attempt[a])
            /\ streamOpen' = [streamOpen EXCEPT ![a] = LoopExit(@)]
            /\ delivered' = delivered
       ELSE /\ RunBody(a, 1, c)
            /\ UNCHANGED <<result, streamOpen, failures>>
    /\ UNCHANGED <<options, client, handles, built, calls, attempt, requests, sentModel,
                   resolved>>
    /\ UNCHANGED netVars

\* The caller's next() after an event: the body resumes behind the yield.
Pull(a) ==
    /\ pc[a] \in YieldPcs
    /\ RunBody(a, PcYield(pc[a]) + 1, received[a][Len(received[a])])
    /\ UNCHANGED <<options, client, handles, built, calls, chunks, attempt, failures,
                   received, requests, sentModel, result, streamOpen, resolved>>
    /\ UNCHANGED netVars

\* The backend closes the stream: the loop and the generator finish.
StreamEnd(a) ==
    /\ pc[a] = "awaitChunk"
    /\ pc' = [pc EXCEPT ![a] = "idle"]
    /\ result' = [result EXCEPT ![a] = [status |-> "completed"]]
    /\ streamOpen' = [streamOpen EXCEPT ![a] = FALSE]
    /\ UNCHANGED <<options, client, handles, built, calls, chunks, attempt, failures,
                   received, delivered, requests, sentModel, resolved>>
    /\ UNCHANGED netVars

\* The stream breaks while the loop waits for a chunk.
StreamFails(a, err) ==
    /\ pc[a] = "awaitChunk"
    /\ Settle(a, err, attempt[a])
    /\ streamOpen' = [streamOpen EXCEPT ![a] = FALSE]
    /\ UNCHANGED <<options, client, handles, built, calls, chunks, attempt, received,
                   delivered, requests, sentModel, resolved>>
    /\ UNCHANGED netVars

\* The caller stops consuming: return() on the generator suspended at a yield
\* leaves the for-await loop, which closes the stream.
Cancel(a) ==
    /\ pc[a] \in YieldPcs \cup {"start"}
    /\ pc' = [pc EXCEPT ![a] = "idle"]
    /\ result' = [result EXCEPT ![a] = [status |-> "cancelled"]]
    /\ streamOpen' = [streamOpen EXCEPT ![a] = LoopExit(@)]
    /\ UNCHANGED <<options, client, handles, built, calls, chunks, attempt, failures,
                   received, delivered, requests, sentModel, resolved>>
    /\ UNCHANGED netVars

\* A direct call of getModel.
GetModel(a) ==
    /\ resolved' = [resolved EXCEPT ![a] = getModel(options[a])]
    /\ UNCHANGED <<options, client, handles, built, calls, chunks, requests, sentModel,
                   callVars>>
    /\ UNCHANGED netVars

(***************************************************************************)
(* net.ts                                                                  *)
(***************************************************************************)
\* Values of the proxy variables of process.env.
ProxyEnvs == {"unset", "http://proxy-a:3128", "http://proxy-b:3128"}

NetInit ==
    /\ netLoaded = FALSE
    /\ isVSCode \in BOOLEAN
    /\ env \in ProxyEnvs
    /\ agents = 0
    /\ agentEnv = "none"
    /\ route = "none"
    /\ dispatcher = 0
    /\ fetch = "uninitialized"
    /\ fetchCalls = 0
    /\ loggerCalls = 0
    /\ settings = [adapter |-> "none", fetch |-> "none"]

\* The function the initializer returns: the isVSCode branch is commented out.
SelectFetch(vscode) == "undiciFetch"

\* Whether the initializer builds an EnvHttpProxyAgent and installs it.
InstallsAgent(vscode) == TRUE

\* Logger.info calls the initializer makes.
InitLogs == 0

\* Mutant of InitLogger: the initializer logs the proxy it found.
InitLoggerInfo(n) == n + 1

\* Logger.info calls made once the initializer has run, n having been made before.
InitLogger(n) == n + InitLogs

\* Evaluation of the module: the initializer of the exported fetch runs.
LoadNet ==
    /\ ~netLoaded
    /\ netLoaded' = TRUE
    /\ IF InstallsAgent(isVSCode)
       THEN /\ agents' = agents + 1
            /\ agentEnv' = env
            /\ dispatcher' = agents + 1
       ELSE UNCHANGED <<agents, agentEnv, dispatcher>>
    /\ fetch' = SelectFetch(isVSCode)
    /\ loggerCalls' = InitLogger(loggerCalls)
    /\ UNCHANGED <<isVSCode, env, route, fetchCalls, settings>>
    /\ UNCHANGED adapterVars

\* The proxy the exported fetch sends a request through: undici's fetch uses
\* the global dispatcher, the platform fetch uses the host's configuration.
RouteOf(f, d, aEnv) ==
    IF f = "undiciFetch" THEN (IF d = 0 THEN "direct" ELSE aEnv) ELSE "host"

\* A call of the exported fetch.
Fetch ==
    /\ netLoaded
    /\ fetchCalls < MaxNetCalls
    /\ fetchCalls' = fetchCalls + 1
    /\ route' = RouteOf(fetch, dispatcher, agentEnv)
    /\ UNCHANGED <<netLoaded, isVSCode, env, agents, agentEnv, dispatcher, fetch,
                   loggerCalls, settings>>
    /\ UNCHANGED adapterVars

\* Mutant of AxiosTransport: the proxy environment is resolved again.
AxiosTransportReresolve(count, aEnv, d, f, e) == <<count + 1, e, count + 1, f>>

\* What getAxiosSettings does to the transport: nothing.
AxiosTransport(count, aEnv, d, f, e) == <<count, aEnv, d, f>>

\* Mutant of AxiosSettings: the platform's global fetch is handed out.
AxiosSettingsGlobalFetch(f) == [adapter |-> "fetch", fetch |-> "globalFetch"]

\* The fragment getAxiosSettings returns, f being the exported fetch.
AxiosSettings(f) == [adapter |-> "fetch", fetch |-> f]

\* getAxiosSettings
getAxiosSettings ==
    /\ netLoaded
    /\ loggerCalls < MaxNetCalls
    /\ loggerCalls' = loggerCalls + 1
    /\ settings' = AxiosSettings(fetch)
    /\ LET t == AxiosTransport(agents, agentEnv, dispatcher, fetch, env) IN
           /\ agents' = t[1]
           /\ agentEnv' = t[2]
           /\ dispatcher' = t[3]
           /\ fetch' = t[4]
    /\ UNCHANGED <<netLoaded, isVSCode, env, route, fetchCalls>>
    /\ UNCHANGED adapterVars

\* The environment of the running process changes.
SetEnv(e) ==
    /\ env # e
    /\ env' = e
    /\ UNCHANGED <<netLoaded, isVSCode, agents, agentEnv, route, dispatcher, fetch,
                   fetchCalls, loggerCalls, settings>>
    /\ UNCHANGED adapterVars

(***************************************************************************)
(* Specifications                                                          *)
(***************************************************************************)
\* The adapters, with net.ts not yet evaluated.
Init ==
    /\ AdapterInit
    /\ NetInit
    /\ isVSCode = FALSE
    /\ env = "unset"

Next ==
    \E a \in Adapters :
        \/ Call(a)
        \/ FirstPull(a)
        \/ Retry(a)
        \/ Respond(a)
        \/ \E err \in BackendErrors : RequestFails(a, err)
        \/ \E c \in ChunkInputs : TakeChunk(a, c)
        \/ Pull(a)
        \/ StreamEnd(a)
        \/ \E err \in BackendErrors : StreamFails(a, err)
        \/ Cancel(a)

Spec == Init /\ [][Next]_vars

\* Every step of adapter a's call: the caller's pulls, the backend's answers
\* and the wrapper's retries.
CallStep(a) ==
    \/ FirstPull(a)
    \/ Retry(a)
    \/ Respond(a)
    \/ \E err \in BackendErrors : RequestFails(a, err)
    \/ \E c \in ChunkInputs : TakeChunk(a, c)
    \/ Pull(a)
    \/ StreamEnd(a)
    \/ \E err \in BackendErrors : StreamFails(a, err)
    \/ Cancel(a)

\* The adapters with a caller that keeps consuming (or returns), a backend
\* that answers every request and ends every stream, and a backoff that ends.
LiveSpec == Init /\ [][Next]_vars /\ \A a \in Adapters : WF_vars(CallStep(a))

\* getModel over the apiModelId inputs, on adapters constructed and unused.
ModelInit ==
    /\ AdapterFields
    /\ options \in [Adapters -> [nousResearchApiKey : {Undefined, "sk-nous"},
                                 apiModelId : ModelIdInputs]]
    /\ NetInit
    /\ isVSCode = FALSE
    /\ env = "unset"

ModelNext == \E a \in Adapters : GetModel(a)

ModelSpec == ModelInit /\ [][ModelNext]_vars

\* net.ts, with the adapters constructed and unused.
NetSpecInit ==
    /\ NetInit
    /\ AdapterInit
    /\ \A a \in Adapters : options[a].nousResearchApiKey = "sk-nous"

NetNext ==
    \/ LoadNet
    \/ Fetch
    \/ getAxiosSettings
    \/ \E e \in ProxyEnvs : SetEnv(e)

NetSpec == NetSpecInit /\ [][NetNext]_vars

(***************************************************************************)
(* What the contract expects of a stream, written from the contract        *)
(***************************************************************************)
IsPrefix(s, t) == Len(s) <= Len(t) /\ \A i \in 1..Len(s) : s[i] = t[i]

Last(s) == s[Len(s)]

\* The events the contract asks for one chunk: its content delta, then its
\* reasoning delta, then its usage totals, each only when present.
ExpectedOf(c) ==
    (IF c.hasChoices /\ c.hasDelta /\ c.content \notin {Undefined, ""}
     THEN <<[type |-> "text", text |-> c.content]>> ELSE <<>>)
    \o (IF c.hasChoices /\ c.hasDelta /\ c.reasoning_content \notin {Undefined, ""}
        THEN <<[type |-> "reasoning", reasoning |-> c.reasoning_content]>> ELSE <<>>)
    \o (IF c.hasChoices /\ c.hasUsage
        THEN <<[type |-> "usage",
                inputTokens |-> IF c.prompt_tokens = NoNumber THEN 0 ELSE c.prompt_tokens,
                outputTokens |-> IF c.completion_tokens = NoNumber THEN 0
                                 ELSE c.completion_tokens]>>
        ELSE <<>>)

RECURSIVE Expected(_)
Expected(chs) ==
    IF chs = <<>> THEN <<>>
    ELSE Expected(SubSeq(chs, 1, Len(chs) - 1)) \o ExpectedOf(Last(chs))

\* The events of one type among evs, in order.
OfType(evs, t) == SelectSeq(evs, LAMBDA e : e.type = t)

\* The loop has finished the body of every chunk it has taken.
BetweenChunks(a) == pc[a] = "awaitChunk" \/ result[a].status = "completed"

NoFields(c) == c.content = Undefined /\ c.reasoning_content = Undefined /\ ~c.hasUsage

HeChunk == Chunk(TRUE, TRUE, "He", Undefined, FALSE, NoNumber, NoNumber)
LloChunk == Chunk(TRUE, TRUE, "llo", Undefined, FALSE, NoNumber, NoNumber)

(***************************************************************************)
(* Claims                                                                  *)
(***************************************************************************)

\* C1: an adapter whose options carry no API key never issues a backend
\* request and never yields an event, over any sequence of createMessage
\* calls; every call that ran ended with the missing-key error.
C1_NoKeyNoRequest ==
    \A a \in Adapters :
        options[a].nousResearchApiKey \in {Undefined, ""} =>
            /\ requests[a] = 0
            /\ delivered[a] = <<>>
            /\ ~streamOpen[a]
            /\ result[a].status # "completed"
            /\ attempt[a] > 0 =>
                   /\ result[a].status = "failed"
                   /\ result[a].error = "NousResearch API key is required"

\* Two calls were made on one keyless adapter (one with the key "") and the
\* latest one has run and failed.
C1_Witness ==
    \E a \in Adapters :
        /\ options[a].nousResearchApiKey = ""
        /\ calls = 2
        /\ \A b \in Adapters \ {a} : result[b].status = "none"
        /\ result[a].status = "failed"

\* C2: the events handed to the caller are, in order, the events of the
\* chunks in the order the stream delivered them, and a text event carries
\* the content delta of its own chunk, never an accumulation.
C2_EventsInChunkOrder ==
    \A a \in Adapters :
        /\ IsPrefix(delivered[a], Expected(received[a]))
        /\ BetweenChunks(a) => delivered[a] = Expected(received[a])

\* The stream sent "He" then "llo" and closed; the caller got the two deltas.
C2_Witness ==
    \E a \in Adapters :
        /\ result[a].status = "completed"
        /\ received[a] = <<HeChunk, LloChunk>>
        /\ delivered[a] = <<[type |-> "text", text |-> "He"],
                            [type |-> "text", text |-> "llo"]>>

\* C3: a stream whose chunks set none of content, reasoning and usage yields
\* no event, and no text or reasoning event ever carries an empty string.
C3_NoEmptyEvents ==
    \A a \in Adapters :
        /\ (\A i \in DOMAIN received[a] : NoFields(received[a][i])) => delivered[a] = <<>>
        /\ \A i \in DOMAIN delivered[a] :
               /\ delivered[a][i].type = "text" =>
                      delivered[a][i].text \notin {"", Undefined}
               /\ delivered[a][i].type = "reasoning" =>
                      delivered[a][i].reasoning \notin {"", Undefined}

\* A stream of two chunks without any field closed normally with no event.
C3_Witness ==
    \E a \in Adapters :
        /\ result[a].status = "completed"
        /\ Len(received[a]) = 2
        /\ \A i \in DOMAIN received[a] : NoFields(received[a][i])
        /\ delivered[a] = <<>>

\* C4: a call that completes after attempts that failed before any output
\* hands the caller exactly the events of the successful stream, once each;
\* and a transient failure before any output ends the call only when the
\* attempts are used up.
C4_RetryThenSuccess ==
    \A a \in Adapters :
        /\ result[a].status = "completed" =>
               /\ failures[a] = attempt[a] - 1
               /\ delivered[a] = Expected(received[a])
        /\ (result[a].status = "failed" /\ delivered[a] = <<>>
            /\ IsTransient(result[a].error)) => attempt[a] >= MaxAttempts

\* Two attempts failed, the third one streamed an event and completed.
C4_Witness ==
    \E a \in Adapters :
        /\ result[a].status = "completed"
        /\ failures[a] = 2
        /\ attempt[a] = 3
        /\ delivered[a] # <<>>

\* C5: once a call has handed an event to its caller, a failure ends it: no
\* further request is issued in that call, no retry is scheduled, the events
\* already handed over stay as they are, and the call ends with the error.
C5_FailureAfterOutputIsTerminal ==
    [][\A a \in Adapters :
          delivered[a] # <<>> =>
              /\ requests'[a] = requests[a]
              /\ pc'[a] # "backoff"
              /\ failures'[a] > failures[a] =>
                     /\ result'[a].status = "failed"
                     /\ pc'[a] = "idle"
                     /\ delivered'[a] = delivered[a]]_vars

\* A transient error came after an event, with attempts left: the call failed.
C5_Witness ==
    \E a \in Adapters :
        /\ result[a].status = "failed"
        /\ IsTransient(result[a].error)
        /\ delivered[a] # <<>>
        /\ attempt[a] < MaxAttempts
        /\ requests[a] = attempt[a]

\* C6: a call makes at most MaxAttempts attempts; a call whose attempts all
\* failed ends with the last error annotated with the number of retries, and
\* never as a completed stream.
C6_BoundedAttempts ==
    \A a \in Adapters :
        /\ attempt[a] <= MaxAttempts
        /\ failures[a] <= attempt[a]
        /\ pc[a] = "backoff" => attempt[a] < MaxAttempts /\ failures[a] = attempt[a]
        /\ (pc[a] = "idle" /\ attempt[a] > 0 /\ failures[a] = attempt[a]) =>
               /\ result[a].status = "failed"
               /\ result[a].retries = attempt[a] - 1
        /\ result[a].status = "failed" => failures[a] = attempt[a]

\* Every attempt failed transiently: three requests, then the error with two retries.
C6_Witness ==
    \E a \in Adapters :
        /\ result[a] = Failed("transient", MaxAttempts)
        /\ failures[a] = MaxAttempts
        /\ requests[a] = MaxAttempts
        /\ result[a].retries = MaxAttempts - 1

\* C7: getModel returns the table's entry for an identifier of the static
\* table, and the default identifier with the default's info for any other.
C7_GetModelKnownOrDefault ==
    \A a \in Adapters :
        LET id == options[a].apiModelId IN
        resolved[a].id # Undefined =>
            /\ resolved[a].id \in nousresearchModels
            /\ resolved[a].info = ModelInfoOf(resolved[a].id)
            /\ resolved[a].id = IF id \in nousresearchModels THEN id
                                ELSE nousresearchDefaultModelId

\* C8: every chunk with usage totals yields one usage event carrying its
\* prompt and completion counts, 0 for a count that is absent; a chunk
\* without usage never makes the call fail.
C8_UsageDefaults ==
    \A a \in Adapters :
        /\ IsPrefix(OfType(delivered[a], "usage"), OfType(Expected(received[a]), "usage"))
        /\ BetweenChunks(a) =>
               OfType(delivered[a], "usage") = OfType(Expected(received[a]), "usage")
        /\ \A i \in DOMAIN delivered[a] :
               delivered[a][i].type = "usage" =>
                   /\ delivered[a][i].inputTokens \in Nat
                   /\ delivered[a][i].outputTokens \in Nat
        /\ (result[a].status = "failed" /\ result[a].error = "TypeError") =>
               ~Last(received[a]).hasChoices

\* A chunk whose usage has no prompt_tokens produced usage(0, 2).
C8_Witness ==
    \E a \in Adapters :
        /\ result[a].status = "completed"
        /\ \E i \in DOMAIN received[a] :
               received[a][i].hasUsage /\ received[a][i].prompt_tokens = NoNumber
        /\ \E i \in DOMAIN delivered[a] :
               delivered[a][i] = [type |-> "usage", inputTokens |-> 0, outputTokens |-> 2]

\* C9: an adapter builds its client at most once, holds it from then on and
\* sends every request through it; no two adapters hold the same client.
C9_ClientBuiltOnce ==
    \A a \in Adapters :
        /\ built[a] <= 1
        /\ built[a] = 1 <=> client[a] # 0
        /\ requests[a] > 0 => client[a] # 0
        /\ \A b \in Adapters \ {a} : client[a] # 0 => client[a] # client[b]

\* The second call on one adapter sent its request through the client the
\* first call built.
C9_Witness ==
    \E a \in Adapters :
        /\ calls = 2
        /\ \A b \in Adapters \ {a} : result[b].status = "none"
        /\ result[a].status = "completed"
        /\ attempt[a] = 1
        /\ requests[a] >= 2
        /\ built[a] = 1

\* C10: the transport is selected once: evaluating the module builds and
\* installs exactly one dispatcher, and from then on no fetch call, no
\* getAxiosSettings call and no change of the environment builds another
\* one, re-reads the proxy environment or changes the exported fetch.
C10_TransportSelectedOnce ==
    [][/\ netLoaded' => agents' = 1 /\ dispatcher' = 1 /\ fetch' # "uninitialized"
       /\ netLoaded =>
              /\ netLoaded'
              /\ agents' = agents
              /\ agentEnv' = agentEnv
              /\ dispatcher' = dispatcher
              /\ fetch' = fetch]_vars

\* After the environment changed, getAxiosSettings and fetch were called and
\* the request still went through the proxy read at initialization.
C10_Witness ==
    /\ netLoaded
    /\ env # agentEnv
    /\ loggerCalls > 0
    /\ settings.fetch = fetch
    /\ fetchCalls > 0
    /\ route = agentEnv
    /\ agents = 1


\* C11: every getAxiosSettings call returns the adapter "fetch" together with
\* the very function the module exports as fetch.
C11_AxiosUsesExportedFetch ==
    settings.adapter # "none" =>
        /\ settings.adapter = "fetch"
        /\ settings.fetch = fetch
        /\ settings.fetch # "uninitialized"

\* getAxiosSettings has been called and a request has gone out through fetch.
C11_Witness ==
    /\ loggerCalls > 0
    /\ fetchCalls > 0
    /\ settings = [adapter |-> "fetch", fetch |-> "undiciFetch"]

\* C12: inside the VSCode host the platform fetch is exported unmodified and
\* no dispatcher is installed; in every other environment an agent built from
\* the proxy environment is installed and undici's fetch is exported.
C12_TransportByEnvironment ==
    netLoaded =>
        IF isVSCode
        THEN fetch = "globalFetch" /\ dispatcher = 0 /\ agents = 0
        ELSE fetch = "undiciFetch" /\ dispatcher # 0 /\ agents = 1

\* C13: the Logger is not called before the selection of the exported fetch
\* has completed, nor by the selection itself.
C13_NoLoggerDuringInit ==
    [][~netLoaded => loggerCalls = 0 /\ loggerCalls' = 0]_vars

\* The initializer has run and installed its agent, and nothing was logged.
C13_Witness ==
    /\ netLoaded
    /\ dispatcher = 1
    /\ fetch = "undiciFetch"
    /\ loggerCalls = 0

\* C14: a backend stream is open only while its call is running the loop;
\* once a call has ended, by completion, by an error or by the caller's
\* return(), its stream is closed and the generator is finished, so that no
\* further event is produced.
C14_StreamClosedOnEveryExit ==
    \A a \in Adapters :
        /\ streamOpen[a] =>
               /\ pc[a] \in YieldPcs \cup {"awaitChunk"}
               /\ result[a].status = "pending"
        /\ result[a].status \in {"cancelled", "completed", "failed"} =>
               /\ pc[a] = "idle"
               /\ ~streamOpen[a]

\* The caller stopped after the first event of a chunk that had more to give.
C14_Witness ==
    \E a \in Adapters :
        /\ result[a].status = "cancelled"
        /\ Len(received[a]) = 1
        /\ Len(delivered[a]) = 1
        /\ Len(Expected(received[a])) = 3
        /\ ~streamOpen[a]

\* C15: every call ends once its backend ends its streams, after events
\* that number at most three for each chunk taken; and every entry into the
\* request step, in whichever call or attempt, issues one new backend request.
C15_FiniteAndNotRestartable ==
    /\ \A a \in Adapters : (pc[a] # "idle") ~> (pc[a] = "idle")
    /\ [][\A a \in Adapters :
             /\ (pc'[a] = "awaitResponse" /\ pc[a] # "awaitResponse") =>
                    requests'[a] = requests[a] + 1
             /\ pc'[a] = "awaitChunk" /\ pc[a] = "awaitResponse" =>
                    received'[a] = <<>> /\ streamOpen'[a]
             /\ Len(delivered'[a]) <= 3 * Len(received'[a])]_vars

\* The second call on an adapter completed on a stream of its own: a second
\* request was issued, and its chunk is the only one the call has seen.
C15_Witness ==
    \E a \in Adapters :
        /\ calls = 2
        /\ \A b \in Adapters \ {a} : result[b].status = "none"
        /\ result[a].status = "completed"
        /\ requests[a] = 2
        /\ Len(received[a]) = 1
        /\ delivered[a] = Expected(received[a])
        /\ delivered[a] # <<>>

\* C16, as claimed: constructing an adapter from options without an API key
\* raises, so that no adapter holds such options.
C16_ConstructionFails ==
    \A a \in Adapters : options[a].nousResearchApiKey \notin {Undefined, ""}

\* C16, amended: constructing an adapter from options without an API key
\* succeeds; the error is raised by the first use, the first next() of a
\* createMessage call, in its first attempt and before any request.
C16_FirstUseFails ==
    \A a \in Adapters :
        options[a].nousResearchApiKey \in {Undefined, ""} =>
            /\ client[a] = 0
            /\ requests[a] = 0
            /\ attempt[a] = 0 => result[a].status \in {"none", "pending", "cancelled"}
            /\ attempt[a] > 0 =>
                   /\ attempt[a] = 1
                   /\ pc[a] = "idle"
                   /\ result[a] = [status |-> "failed",
                                   error |-> "NousResearch API key is required",
                                   retries |-> 0]

\* An adapter built without a key was used once, and that use failed.
C16_Witness ==
    \E a \in Adapters :
        /\ options[a].nousResearchApiKey = Undefined
        /\ calls = 1
        /\ attempt[a] = 1
        /\ result[a].status = "failed"
        /\ requests[a] = 0

\* C17: one chunk of unexpected shape does not end the stream: the call
\* fails on a malformed chunk only when the stream has delivered more than
\* one of them, and a single one is skipped.
C17_MalformedChunkSkipped ==
    \A a \in Adapters :
        LET bad == {i \in DOMAIN received[a] : ~received[a][i].hasChoices} IN
        Cardinality(bad) = 1 =>
            /\ ~(result[a].status = "failed" /\ result[a].error = "TypeError")
            /\ pc[a] # "backoff"

\* C18: the adapter takes a chunk from the stream only while a next() of the
\* caller is pending, one chunk at a time, and only when every event of the
\* chunks taken before has been handed to the caller; so at most one chunk
\* with events still to hand over is held at any time.
C18_PullBased ==
    [][\A a \in Adapters :
          /\ Len(received'[a]) > Len(received[a]) =>
                 /\ pc[a] = "awaitChunk"
                 /\ Len(received'[a]) = Len(received[a]) + 1
                 /\ delivered[a] = Expected(received[a])
          /\ (received'[a] # received[a] \/ delivered'[a] # delivered[a]) =>
                 IsPrefix(Expected(SubSeq(received'[a], 1, Len(received'[a]) - 1)),
                          delivered'[a])
          /\ Len(delivered'[a]) <= Len(delivered[a]) + 1]_vars

\* The second chunk was taken after the three events of the first one had
\* been handed over, and its first event has been yielded.
C18_Witness ==
    \E a \in Adapters :
        /\ Len(received[a]) = 2
        /\ Len(ExpectedOf(received[a][1])) = 3
        /\ Len(delivered[a]) = 4
        /\ pc[a] \in YieldPcs

\* The step leaves everything adapter a owns as it is.
Untouched(a) ==
    /\ pc'[a] = pc[a]
    /\ attempt'[a] = attempt[a]
    /\ failures'[a] = failures[a]
    /\ received'[a] = received[a]
    /\ delivered'[a] = delivered[a]
    /\ result'[a] = result[a]
    /\ streamOpen'[a] = streamOpen[a]
    /\ client'[a] = client[a]
    /\ built'[a] = built[a]
    /\ requests'[a] = requests[a]
    /\ sentModel'[a] = sentModel[a]
    /\ options'[a] = options[a]

\* C19: calls on different adapters do not touch each other: a step of one
\* adapter's call leaves the call, the client and the options of the other
\* adapter as they are, under every interleaving, and an event handed to a
\* caller is an event of the latest chunk of that call's own stream.
C19_AdaptersIsolated ==
    [][/\ \A a, b \in Adapters : (a # b /\ ~Untouched(a)) => Untouched(b)
       /\ \A a \in Adapters :
              Len(delivered'[a]) > Len(delivered[a]) =>
                  /\ received'[a] # <<>>
                  /\ \E i \in DOMAIN ExpectedOf(Last(received'[a])) :
                         delivered'[a] =
                             Append(delivered[a], ExpectedOf(Last(received'[a]))[i])]_vars

\* Two calls are in flight at once, each holding the event of its own chunk.
C19_Witness ==
    /\ \A a \in Adapters : pc[a] \in YieldPcs /\ Len(delivered[a]) = 1
    /\ delivered[1] # delivered[2]
    /\ client[1] # client[2]

\* text < reasoning < usage.
Rank(e) ==
    CASE e.type = "text" -> 1
      [] e.type = "reasoning" -> 2
      [] e.type = "usage" -> 3

\* The places of evs where the next event is not of a later kind, i.e. where
\* the events of one chunk end and those of another begin.
Descents(evs) == {i \in 1..(Len(evs) - 1) : Rank(evs[i]) >= Rank(evs[i + 1])}

FullChunk == Chunk(TRUE, TRUE, "He", "hm", TRUE, 5, 2)

FullEvents ==
    << [type |-> "text", text |-> "He"],
       [type |-> "reasoning", reasoning |-> "hm"],
       [type |-> "usage", inputTokens |-> 5, outputTokens |-> 2] >>

\* C20: one chunk yields at most three events, in the order text, reasoning,
\* usage: the events of a call fall into at most one strictly rising run per
\* chunk taken, and a chunk with content, reasoning and usage gives exactly
\* one event of each kind, in that order, before any event of the next chunk.
C20_ChunkEventOrder ==
    \A a \in Adapters :
        /\ Len(delivered[a]) <= 3 * Len(received[a])
        /\ delivered[a] # <<>> => Cardinality(Descents(delivered[a])) < Len(received[a])
        /\ (received[a] # <<>> /\ received[a][1] = FullChunk
              /\ (Len(received[a]) > 1 \/ BetweenChunks(a)))
           => /\ Len(delivered[a]) >= 3
              /\ SubSeq(delivered[a], 1, 3) = FullEvents
        /\ (received[a] = <<FullChunk>> /\ pc[a] \in YieldPcs)
           => /\ Len(delivered[a]) = PcYield(pc[a])
              /\ delivered[a] = SubSeq(FullEvents, 1, PcYield(pc[a]))

\* Two full chunks in a row have given six events, three per chunk.
C20_Witness ==
    \E a \in Adapters :
        /\ received[a] = <<FullChunk, FullChunk>>
        /\ delivered[a] = FullEvents \o FullEvents
        /\ result[a].status = "completed"

====
